---------------------------- MODULE Spec2Model ----------------------------
(***************************************************************************)
(* State-machine model of the WeV sensor-to-rig pipeline:                  *)
(*   - useFaceTracking (camera + FaceMesh + Kalidokit solver hook),        *)
(*   - FaceTrackingCanvas (auto-initialise effect, Retry button),          *)
(*   - AvatarCanvas (tracking cell, render loop, rig applier),             *)
(*   - useAudioLipSync / UIControls (audio envelope estimator).            *)
(*                                                                         *)
(* Units.  Expression weights are integers in thousandths (1000 = 1.0).    *)
(* Head angles are milli-degrees on the solver side and micro-radians on   *)
(* the rig side.  A solver field that may be undefined/NaN is a sequence   *)
(* of length 0 (undefined) or 1 (the value), so that `x || 0` is modelled  *)
(* by what it does.                                                        *)
(***************************************************************************)
EXTENDS Integers, Sequences, FiniteSets, TLC

(* ------------------------------ bounds --------------------------------- *)

\* Number of initialize() invocations of the tracking hook that are modelled.
MaxInits == 2

\* Cap on the decimation counter frameCountRef.
MaxFrames == 6

\* Cap on pending Retry timers (setTimeout(initialize, 1000)).
MaxRetryTimers == 1

\* Number of initializeMicrophone() invocations that are modelled.
MaxAudioInits == 2

InitIds == 1..MaxInits
AudioInitIds == 1..MaxAudioInits

(* ----------------------- program constants ----------------------------- *)

\* frameCountRef.current % 3 (useFaceTracking.ts)
DecimationN == 3

\* One (1.0) in thousandths: the upper clamp of Math.max(0, Math.min(1, v)).
One == 1000

\* rotation * 0.5 in applyHeadRotation, in tenths.
HeadDampingTenths == 5

\* THREE.MathUtils.DEG2RAD = pi/180 in micro-radians per degree.
Deg2RadMicro == 17453

(* ------------------------------ values --------------------------------- *)

\* JavaScript null for a reference / state cell holding an object.
NULL == [isNull |-> TRUE]

\* Reference cells that hold an id use 0 for null.
NoId == 0

\* error state: null or a message
NoError == "null"

Zero3 == [x |-> 0, y |-> 0, z |-> 0]

\* `v || 0` for a possibly undefined number (sequence of length <= 1).
OrZero(f) == IF f = <<>> THEN 0 ELSE f[1]

Max(a, b) == IF a >= b THEN a ELSE b
Min(a, b) == IF a <= b THEN a ELSE b

(***************************************************************************)
(* Outputs of Face.solve (Kalidokit), the external solver.  Two            *)
(* representative faces: FaceA is the end-to-end scenario (mouth A = 0.9,  *)
(* head x = 10 degrees); FaceB has out-of-range, negative and undefined    *)
(* fields.                                                                 *)
(***************************************************************************)
FaceA ==
  [ eyeL |-> <<1000>>, eyeR |-> <<1000>>, pupilX |-> <<0>>, pupilY |-> <<0>>,
    shapeA |-> <<900>>, shapeI |-> <<0>>, shapeO |-> <<0>>, shapeU |-> <<0>>,
    brow |-> <<0>>,
    degX |-> <<10000>>, degY |-> <<0>>, degZ |-> <<0>>,
    posX |-> <<0>>, posY |-> <<0>>, posZ |-> <<0>> ]

FaceB ==
  [ eyeL |-> <<1500>>, eyeR |-> <<-200>>, pupilX |-> <<-300>>, pupilY |-> <<500>>,
    shapeA |-> <<>>, shapeI |-> <<400>>, shapeO |-> <<200>>, shapeU |-> <<100>>,
    brow |-> <<-600>>,
    degX |-> <<-20000>>, degY |-> <<30000>>, degZ |-> <<>>,
    posX |-> <<2000>>, posY |-> <<-1000>>, posZ |-> <<>> ]

Faces == {FaceA, FaceB}

\* What one onResults callback can carry: no landmarks, or landmarks for
\* which Face.solve returns a face, returns undefined, or throws.
NoFace == [kind |-> "noLandmarks"]
SolveUndefined == [kind |-> "solveUndefined"]
SolveThrows == [kind |-> "solveThrows"]
SolveFace(f) == [kind |-> "face", face |-> f]

Results == {NoFace, SolveUndefined, SolveThrows} \cup {SolveFace(f) : f \in Faces}

Entry(n, v) == [name |-> n, value |-> v]

\* Variant of ActiveData whose eyeLookOutRight mirrors the pupil like
\* eyeLookOutLeft does.
ActiveDataOutRightMirrored(face) ==
  [ isActive |-> TRUE,
    blendShapes |->
      << Entry("eyeBlinkLeft", OrZero(face.eyeL)),
         Entry("eyeBlinkRight", OrZero(face.eyeR)),
         Entry("eyeLookUpLeft", Max(0, OrZero(face.pupilY))),
         Entry("eyeLookUpRight", Max(0, OrZero(face.pupilY))),
         Entry("eyeLookDownLeft", Max(0, 0 - OrZero(face.pupilY))),
         Entry("eyeLookDownRight", Max(0, 0 - OrZero(face.pupilY))),
         Entry("eyeLookInLeft", Max(0, OrZero(face.pupilX))),
         Entry("eyeLookInRight", Max(0, 0 - OrZero(face.pupilX))),
         Entry("eyeLookOutLeft", Max(0, 0 - OrZero(face.pupilX))),
         Entry("eyeLookOutRight", Max(0, 0 - OrZero(face.pupilX))),
         Entry("mouthOpen", OrZero(face.shapeA)),
         Entry("mouthSmileLeft", OrZero(face.shapeI)),
         Entry("mouthSmileRight", OrZero(face.shapeI)),
         Entry("mouthFunnel", OrZero(face.shapeO)),
         Entry("mouthPucker", OrZero(face.shapeU)),
         Entry("browDownLeft", Max(0, 0 - OrZero(face.brow))),
         Entry("browDownRight", Max(0, 0 - OrZero(face.brow))),
         Entry("browUpCenter", Max(0, OrZero(face.brow))),
         Entry("browUpLeft", Max(0, OrZero(face.brow))),
         Entry("browUpRight", Max(0, OrZero(face.brow))) >>,
    rotation |-> [x |-> OrZero(face.degX), y |-> OrZero(face.degY), z |-> OrZero(face.degZ)],
    position |-> [x |-> OrZero(face.posX), y |-> OrZero(face.posY), z |-> OrZero(face.posZ)] ]

\* trackingData literal of onResults: isActive true, 20 blend shapes in
\* literal (= Object.entries iteration) order, rotation, position.
ActiveData(face) ==
  [ isActive |-> TRUE,
    blendShapes |->
      << Entry("eyeBlinkLeft", OrZero(face.eyeL)),
         Entry("eyeBlinkRight", OrZero(face.eyeR)),
         Entry("eyeLookUpLeft", Max(0, OrZero(face.pupilY))),
         Entry("eyeLookUpRight", Max(0, OrZero(face.pupilY))),
         Entry("eyeLookDownLeft", Max(0, 0 - OrZero(face.pupilY))),
         Entry("eyeLookDownRight", Max(0, 0 - OrZero(face.pupilY))),
         Entry("eyeLookInLeft", Max(0, OrZero(face.pupilX))),
         Entry("eyeLookInRight", Max(0, 0 - OrZero(face.pupilX))),
         Entry("eyeLookOutLeft", Max(0, 0 - OrZero(face.pupilX))),
         Entry("eyeLookOutRight", Max(0, OrZero(face.pupilX))),
         Entry("mouthOpen", OrZero(face.shapeA)),
         Entry("mouthSmileLeft", OrZero(face.shapeI)),
         Entry("mouthSmileRight", OrZero(face.shapeI)),
         Entry("mouthFunnel", OrZero(face.shapeO)),
         Entry("mouthPucker", OrZero(face.shapeU)),
         Entry("browDownLeft", Max(0, 0 - OrZero(face.brow))),
         Entry("browDownRight", Max(0, 0 - OrZero(face.brow))),
         Entry("browUpCenter", Max(0, OrZero(face.brow))),
         Entry("browUpLeft", Max(0, OrZero(face.brow))),
         Entry("browUpRight", Max(0, OrZero(face.brow))) >>,
    rotation |-> [x |-> OrZero(face.degX), y |-> OrZero(face.degY), z |-> OrZero(face.degZ)],
    position |-> [x |-> OrZero(face.posX), y |-> OrZero(face.posY), z |-> OrZero(face.posZ)] ]

\* Variant of InactiveData that keeps a head rotation.
InactiveDataKeepsRotation ==
  [ isActive |-> FALSE, blendShapes |-> <<>>,
    rotation |-> [x |-> 10000, y |-> 0, z |-> 0], position |-> Zero3 ]

\* The inactive sample of the catch branch and of the no-face branch.
InactiveData ==
  [ isActive |-> FALSE, blendShapes |-> <<>>, rotation |-> Zero3, position |-> Zero3 ]

\* A FaceTrackingData the type admits (blendShapes: Record<string, number>)
\* though onResults never builds it: two of its names have no entry in the
\* channel mapping.
UnmappedData ==
  [ isActive |-> TRUE,
    blendShapes |->
      << Entry("cheekPuff", 700), Entry("mouthOpen", 300),
         Entry("mouthPucker", 500), Entry("jawOpen", 1200) >>,
    rotation |-> [x |-> 10000, y |-> 0, z |-> 0],
    position |-> Zero3 ]

\* A FaceTrackingData the type admits though onResults never builds it:
\* source names that share a target channel carry different values.
CollidingData ==
  [ isActive |-> TRUE,
    blendShapes |->
      << Entry("eyeLookUpLeft", 200), Entry("eyeLookUpRight", 800),
         Entry("mouthSmileLeft", 1300), Entry("mouthSmileRight", 600),
         Entry("browUpCenter", 100), Entry("browUpLeft", 900),
         Entry("browUpRight", -50) >>,
    rotation |-> [x |-> 0, y |-> 20000, z |-> 0],
    position |-> Zero3 ]

(***************************************************************************)
(* A FaceTrackingData object is passed around by reference (onUpdate, the  *)
(* React state, the closure of animate).  The state holds references: the  *)
(* index of the object in the table of the sample objects that can exist.  *)
(***************************************************************************)
SampleTable ==
  << InactiveData, ActiveData(FaceA), ActiveData(FaceB), UnmappedData, CollidingData >>

\* The reference to the sample object `d` (null stays null).
SampleRef(d) ==
  IF d = NULL THEN NULL
  ELSE [ref |-> CHOOSE h \in DOMAIN SampleTable : SampleTable[h] = d]

\* The sample object a reference points to.
SampleAt(r) == IF r = NULL THEN NULL ELSE SampleTable[r.ref]


(* --------------------------- channel mapping --------------------------- *)

\* The rig's expression channels that mapToVRMBlendShape can name.
TargetChannels ==
  { "blinkLeft", "blinkRight", "lookUp", "lookDown", "lookLeft", "lookRight",
    "aa", "joy", "oh", "ou", "angry", "surprised" }

\* mapping[shapeName] || null; the null result is the empty string here.
NoChannel == ""

\* The `mapping` object literal of mapToVRMBlendShape.
mapping ==
  [ eyeBlinkLeft |-> "blinkLeft",
    eyeBlinkRight |-> "blinkRight",
    eyeLookUpLeft |-> "lookUp",
    eyeLookUpRight |-> "lookUp",
    eyeLookDownLeft |-> "lookDown",
    eyeLookDownRight |-> "lookDown",
    eyeLookInLeft |-> "lookLeft",
    eyeLookInRight |-> "lookRight",
    eyeLookOutLeft |-> "lookRight",
    eyeLookOutRight |-> "lookLeft",
    mouthOpen |-> "aa",
    mouthSmileLeft |-> "joy",
    mouthSmileRight |-> "joy",
    mouthFunnel |-> "oh",
    mouthPucker |-> "ou",
    browDownLeft |-> "angry",
    browDownRight |-> "angry",
    browUpCenter |-> "surprised",
    browUpLeft |-> "surprised",
    browUpRight |-> "surprised" ]

\* Variant of mapToVRMBlendShape in which an unmapped name falls back to "aa".
mapToVRMBlendShapeOrAa(shapeName) ==
  IF shapeName \in DOMAIN mapping THEN mapping[shapeName] ELSE "aa"

mapToVRMBlendShape(shapeName) ==
  IF shapeName \in DOMAIN mapping THEN mapping[shapeName] ELSE NoChannel

\* Mutant of Clamp: the lower bound is forgotten.
ClampUpperOnly(value) == Min(One, value)

\* Math.max(0, Math.min(1, value))
Clamp(value) == Max(0, Min(One, value))

\* THREE.MathUtils.degToRad on milli-degrees, giving micro-radians.
degToRad(mdeg) == (mdeg * Deg2RadMicro) \div 1000

\* rotation.x * 0.5 on milli-degrees.
Damped(mdeg) == (mdeg * HeadDampingTenths) \div 10

(***************************************************************************)
(* The rig (VRM) as the applier sees it: whether it has an expression      *)
(* manager, a humanoid, a normalized head bone, and which expression       *)
(* channels exist.  setValue on a channel the rig lacks changes nothing.   *)
(***************************************************************************)
RigFull ==
  [ expressionManager |-> TRUE, humanoid |-> TRUE, head |-> TRUE,
    channels |-> TargetChannels ]

\* A rig without the head bone and without two of the channels.
RigPartial ==
  [ expressionManager |-> TRUE, humanoid |-> TRUE, head |-> FALSE,
    channels |-> TargetChannels \ {"surprised", "ou"} ]

\* A rig with neither expression manager nor humanoid.
RigBare ==
  [ expressionManager |-> FALSE, humanoid |-> FALSE, head |-> FALSE, channels |-> {} ]

ZeroExpr == [c \in TargetChannels |-> 0]

Write(s, c, v) == [src |-> s, ch |-> c, val |-> v]

\* The setValue calls applyBlendShapes makes, in Object.entries order; each
\* is tagged with the source `s` of the blend shapes.
IsMapped(e) == mapToVRMBlendShape(e.name) # NoChannel

BlendShapeWrites(vrm, s, blendShapes) ==
  IF ~vrm.expressionManager THEN <<>>
  ELSE LET mapped == SelectSeq(blendShapes, IsMapped)
       IN [k \in 1..Len(mapped) |->
             Write(s, mapToVRMBlendShape(mapped[k].name), Clamp(mapped[k].value))]

\* expressionManager.setValue(name, value): a no-op for a channel the rig lacks.
setValue(vrm, expr, name, value) ==
  IF name \in vrm.channels THEN [expr EXCEPT ![name] = value] ELSE expr

\* Variant of ApplyWrites in which the first write to a channel wins.
ApplyWritesFirstWins(vrm, expr, writes) ==
  [ c \in DOMAIN expr |->
      LET ks == {k \in DOMAIN writes : writes[k].ch = c}
      IN IF ks # {} /\ c \in vrm.channels
           THEN writes[CHOOSE k \in ks : \A m \in ks : k <= m].val
           ELSE expr[c] ]

RECURSIVE ApplyWrites(_, _, _)
ApplyWrites(vrm, expr, writes) ==
  IF writes = <<>> THEN expr
  ELSE ApplyWrites(vrm, setValue(vrm, expr, Head(writes).ch, Head(writes).val), Tail(writes))

\* applyBlendShapes(vrm, blendShapes): the rig's expression values afterwards.
applyBlendShapes(vrm, expr, blendShapes) ==
  ApplyWrites(vrm, expr, BlendShapeWrites(vrm, "tracking", blendShapes))

\* Whether applyHeadRotation reaches the head bone.
HeadReached(vrm) == vrm.humanoid /\ vrm.head

\* applyHeadRotation(vrm, rotation): the head bone's rotation afterwards.
applyHeadRotation(vrm, headRot, rotation) ==
  IF HeadReached(vrm)
    THEN [ x |-> degToRad(Damped(rotation.x)),
           y |-> degToRad(Damped(rotation.y)),
           z |-> degToRad(Damped(rotation.z)) ]
    ELSE headRot

(* --------------------------- audio envelope ---------------------------- *)

\* analyser.fftSize = 256 gives frequencyBinCount = 128 bytes per snapshot.
BinCount == 128

\* Math.pow(volume, 0.7) in thousandths, for volume = sum / BinCount / 255,
\* tabulated for the byte sums the model feeds in (floor of the exact value).
volumeSmoothed(sum) ==
  CASE sum = 0 -> 0
    [] sum = 256 -> 33
    [] sum = 640 -> 63
    [] sum = 1216 -> 99
    [] sum = 2560 -> 168
    [] sum = 16320 -> 615
    [] sum = 32640 -> 1000

\* Byte sums of the frequency snapshots getByteFrequencyData can deliver.
Sums == {0, 640, 16320, 32640}

\* Variant of Viseme whose comparison is not strict.
VisemeAtOrAbove(s, threshold, gainTenths) ==
  IF s >= threshold THEN (s * gainTenths) \div 10 ELSE 0

\* volumeSmoothed > threshold ? volumeSmoothed * gain : 0, threshold in
\* thousandths and gain in tenths.
Viseme(s, threshold, gainTenths) ==
  IF s > threshold THEN (s * gainTenths) \div 10 ELSE 0

\* Variant of AudioData with the thresholds of visemeE and visemeO exchanged.
AudioDataThresholdsExchanged(sum) ==
  LET s == volumeSmoothed(sum) IN
  [ volume |-> s,
    visemeA |-> Viseme(s, 100, 8),
    visemeI |-> Viseme(s, 50, 6),
    visemeU |-> Viseme(s, 30, 4),
    visemeE |-> Viseme(s, 40, 5),
    visemeO |-> Viseme(s, 70, 7) ]

\* The audioLipSyncData literal of analyzeAudio.
AudioData(sum) ==
  LET s == volumeSmoothed(sum) IN
  [ volume |-> s,
    visemeA |-> Viseme(s, 100, 8),
    visemeI |-> Viseme(s, 50, 6),
    visemeU |-> Viseme(s, 30, 4),
    visemeE |-> Viseme(s, 70, 5),
    visemeO |-> Viseme(s, 40, 7) ]

(* ------------------------------ state ---------------------------------- *)

VARIABLES
  \* useFaceTracking
  frameCountRef,     \* frameCountRef.current
  cameraRef,         \* cameraRef.current: the init id whose Camera it holds, or NoId
  faceMeshRef,       \* faceMeshRef.current is non-null
  srcObject,         \* videoRef.current.srcObject: the stream (init id) or NoId
  isInitialized,
  isTracking,
  error,
  initPc,            \* position of each initialize() invocation
  streamLive,        \* camera streams opened by getUserMedia and not stopped
  cameraRunning,     \* Camera objects started and not stopped
  sending,           \* cameras whose onFrame awaits faceMesh.send (solve in flight)
  retryTimers,       \* pending setTimeout(initialize, 1000) of the Retry button
  \* AvatarCanvas
  currentTrackingData,  \* the tracking cell (React state): a sample reference or NULL
  effectStale,          \* the render effect's deps changed since it last ran
  rafPending,           \* scheduled requestAnimationFrame(animate) callbacks
  animationIdRef,
  clockRunning,         \* clockRef.current.running (THREE.Clock)
  vrmRef,
  rigExpr,              \* the rig's expression channel values
  rigHead,              \* the rig's head bone rotation
  \* useAudioLipSync (one mounted instance of UIControls)
  uiMounted,            \* UIControls is mounted
  lipSyncEnabled,       \* the `enabled` prop
  micInitialized,       \* the audio hook's isInitialized
  micActive,            \* the audio hook's isActive
  micError,             \* the audio hook's error
  audioContextRef,      \* the AudioContext (init id) or NoId
  analyserRef,          \* analyserRef.current and dataArrayRef.current are non-null
  streamRef,            \* the microphone stream (init id) or NoId
  animationFrameRef,    \* id of the last scheduled audio animation frame or NoId
  micPc,                \* position of each initializeMicrophone() invocation
  micLive,              \* microphone streams opened and not stopped
  ctxOpen,              \* AudioContexts created and not closed
  audioRaf,             \* pending requestAnimationFrame callbacks of analyzeAudio
  audioTimeouts,        \* number of pending setTimeout(analyzeAudio, 33)
  audioSample,          \* the last AudioLipSyncData handed to onUpdate
  \* history
  last,              \* what the last handler did
  trkStopped,        \* tracking stop() has returned and initialize() was not called since
  processedCount,    \* number of onResults callbacks that passed the decimation
  micStopped         \* audio stop() has returned and initializeMicrophone() was not called since

trackVars ==
  << frameCountRef, cameraRef, faceMeshRef, srcObject, isInitialized, isTracking,
     error, initPc, streamLive, cameraRunning, sending, retryTimers, trkStopped,
     processedCount >>

cellVars == << currentTrackingData, effectStale >>

loopVars == << rafPending, animationIdRef, clockRunning >>

rigVars == << vrmRef, rigExpr, rigHead >>

audioVars ==
  << uiMounted, lipSyncEnabled, micInitialized, micActive, micError, audioContextRef,
     analyserRef, streamRef, animationFrameRef, micPc, micLive, ctxOpen, audioRaf,
     audioTimeouts, audioSample, micStopped >>

vars == << trackVars, cellVars, loopVars, rigVars, audioVars, last >>

(* ===================== useFaceTracking / FaceTrackingCanvas ============ *)

\* Mutant of Processed: every second callback is processed.
ProcessedEverySecond(count) == count % 2 = 0

\* frameCountRef.current % 3 !== 0 returns early: a callback is processed
\* exactly when the incremented counter is a multiple of 3.
Processed(count) == count % DecimationN = 0

\* Mutant of OnResultsOutcome: Face.solve is not wrapped in try/catch, so
\* a throwing solve emits nothing and the exception leaves the callback.
OnResultsOutcomeNoCatch(res) ==
  CASE res.kind = "noLandmarks" ->
         [emit |-> TRUE, data |-> InactiveData, tracking |-> <<FALSE>>, uncaught |-> FALSE]
    [] res.kind = "solveThrows" ->
         [emit |-> FALSE, data |-> NULL, tracking |-> <<>>, uncaught |-> TRUE]
    [] res.kind = "face" ->
         [emit |-> TRUE, data |-> ActiveData(res.face), tracking |-> <<TRUE>>,
          uncaught |-> FALSE]
    [] res.kind = "solveUndefined" ->
         [emit |-> FALSE, data |-> NULL, tracking |-> <<>>, uncaught |-> FALSE]

\* What a processed onResults callback does with its results: whether it
\* calls onUpdate and with which data, what it sets isTracking to
\* (`tracking` is a sequence of length 0 when setIsTracking is not called),
\* and whether an exception leaves the callback.
OnResultsOutcome(res) ==
  CASE res.kind = "noLandmarks" ->
         [emit |-> TRUE, data |-> InactiveData, tracking |-> <<FALSE>>, uncaught |-> FALSE]
    [] res.kind = "solveThrows" ->
         [emit |-> TRUE, data |-> InactiveData, tracking |-> <<FALSE>>, uncaught |-> FALSE]
    [] res.kind = "face" ->
         [emit |-> TRUE, data |-> ActiveData(res.face), tracking |-> <<TRUE>>,
          uncaught |-> FALSE]
    [] res.kind = "solveUndefined" ->
         [emit |-> FALSE, data |-> NULL, tracking |-> <<>>, uncaught |-> FALSE]

\* The first unused initialize() invocation id.
FreshInit(i) ==
  /\ initPc[i] = "idle"
  /\ \A j \in InitIds : j < i => initPc[j] # "idle"

\* Variant of CountAfterInitialize: initialize() restarts the counter.
CountRestarted(count) == 0

\* frameCountRef.current after initialize(): the ref belongs to the hook,
\* not to the FaceMesh or the Camera that initialize() creates, and nothing
\* assigns it.
CountAfterInitialize(count) == count

\* initialize() up to its first await: setError(null), then initCamera()
\* calls getUserMedia.  (videoRef.current is non-null while mounted.)
initialize ==
  \E i \in InitIds :
    /\ FreshInit(i)
    /\ error' = NoError
    /\ initPc' = [initPc EXCEPT ![i] = "getUserMedia"]
    /\ trkStopped' = FALSE
    /\ frameCountRef' = CountAfterInitialize(frameCountRef)
    /\ last' = [op |-> "initialize"]
    /\ UNCHANGED << cameraRef, faceMeshRef, srcObject, isInitialized,
                    isTracking, streamLive, cameraRunning, sending, processedCount >>

\* The auto-initialise effect of FaceTrackingCanvas.  Its dependency
\* `initialize` changes identity on every render of AvatarCanvas (onUpdate
\* is an inline function), so the effect can run again at any time.
AutoInitEffect ==
  /\ ~isInitialized /\ error = NoError
  /\ initialize
  /\ UNCHANGED retryTimers
  /\ UNCHANGED << cellVars, loopVars, rigVars, audioVars >>

\* getUserMedia resolves: the stream becomes the video's srcObject and
\* initCamera waits for loadedmetadata and play().
GetUserMediaResolve(i) ==
  /\ initPc[i] = "getUserMedia"
  /\ streamLive' = streamLive \cup {i}
  /\ srcObject' = i
  /\ initPc' = [initPc EXCEPT ![i] = "play"]
  /\ last' = [op |-> "getUserMediaResolve"]
  /\ UNCHANGED << frameCountRef, cameraRef, faceMeshRef, isInitialized, isTracking,
                  error, cameraRunning, sending, retryTimers, trkStopped, processedCount >>
  /\ UNCHANGED << cellVars, loopVars, rigVars, audioVars >>

\* getUserMedia rejects: initCamera's catch sets the error and rethrows,
\* initialize's catch sets it again.
GetUserMediaReject(i) ==
  /\ initPc[i] = "getUserMedia"
  /\ error' = "Camera access failed"
  /\ initPc' = [initPc EXCEPT ![i] = "failed"]
  /\ last' = [op |-> "getUserMediaReject"]
  /\ UNCHANGED << frameCountRef, cameraRef, faceMeshRef, srcObject, isInitialized,
                  isTracking, streamLive, cameraRunning, sending, retryTimers, trkStopped,
                  processedCount >>
  /\ UNCHANGED << cellVars, loopVars, rigVars, audioVars >>

\* play() resolves for the stream that is still the video's srcObject:
\* initFaceMesh(), new Camera(...).start(), cameraRef, setIsInitialized(true).
PlayResolve(i) ==
  /\ initPc[i] = "play"
  /\ srcObject = i
  /\ faceMeshRef' = TRUE
  /\ cameraRunning' = cameraRunning \cup {i}
  /\ cameraRef' = i
  /\ isInitialized' = TRUE
  /\ initPc' = [initPc EXCEPT ![i] = "done"]
  /\ last' = [op |-> "playResolve"]
  /\ UNCHANGED << frameCountRef, srcObject, isTracking, error, streamLive, sending,
                  retryTimers, trkStopped, processedCount >>
  /\ UNCHANGED << cellVars, loopVars, rigVars, audioVars >>

\* play() rejects (not allowed to play, or aborted by a later load): the
\* rejection reaches initialize's catch, which sets the error.
PlayReject(i) ==
  /\ initPc[i] = "play"
  /\ error' = "Initialization failed"
  /\ initPc' = [initPc EXCEPT ![i] = "failed"]
  /\ last' = [op |-> "playReject"]
  /\ UNCHANGED << frameCountRef, cameraRef, faceMeshRef, srcObject, isInitialized,
                  isTracking, streamLive, cameraRunning, sending, retryTimers, trkStopped,
                  processedCount >>
  /\ UNCHANGED << cellVars, loopVars, rigVars, audioVars >>

\* Camera onFrame: a running camera hands the video frame to
\* faceMeshRef.current.send and awaits it.
CameraFrame(i) ==
  /\ i \in cameraRunning
  /\ i \notin sending
  /\ faceMeshRef
  /\ frameCountRef + Cardinality(sending) < MaxFrames
  /\ sending' = sending \cup {i}
  /\ last' = [op |-> "onFrame"]
  /\ UNCHANGED << frameCountRef, cameraRef, faceMeshRef, srcObject, isInitialized,
                  isTracking, error, initPc, streamLive, cameraRunning, retryTimers,
                  trkStopped, processedCount >>
  /\ UNCHANGED << cellVars, loopVars, rigVars, audioVars >>

\* faceMesh.onResults callback for the frame camera i sent.
onResults(i, res) ==
  /\ i \in sending
  /\ sending' = sending \ {i}
  /\ frameCountRef' = frameCountRef + 1
  /\ IF ~Processed(frameCountRef')
       THEN /\ last' = [op |-> "onResults", processed |-> FALSE, emitted |-> FALSE,
                        uncaught |-> FALSE, kind |-> "dropped"]
            /\ UNCHANGED << isTracking, cellVars, processedCount >>
       ELSE LET out == OnResultsOutcome(res) IN
            /\ last' = [op |-> "onResults", processed |-> TRUE, emitted |-> out.emit,
                        uncaught |-> out.uncaught, kind |-> res.kind]
            /\ processedCount' = processedCount + 1
            /\ isTracking' = IF out.tracking = <<>> THEN isTracking ELSE out.tracking[1]
            /\ IF out.emit
                 THEN /\ currentTrackingData' = SampleRef(out.data)
                      /\ effectStale' = TRUE
                 ELSE UNCHANGED cellVars
  /\ UNCHANGED << cameraRef, faceMeshRef, srcObject, isInitialized, error, initPc,
                  streamLive, cameraRunning, retryTimers, trkStopped >>
  /\ UNCHANGED << loopVars, rigVars, audioVars >>

\* Variant of StopSample in which stop() hands the inactive sample to onUpdate.
StopSampleInactive(ref) == SampleRef(InactiveData)

\* What stop() leaves in the sample cell: it never calls onUpdate, so the
\* sample stored before.
StopSample(ref) == ref

\* stop() of the tracking hook: what it changes.
stop ==
  /\ currentTrackingData' = StopSample(currentTrackingData)
  /\ cameraRunning' = IF cameraRef # NoId THEN cameraRunning \ {cameraRef} ELSE cameraRunning
  /\ cameraRef' = NoId
  /\ streamLive' = IF srcObject # NoId THEN streamLive \ {srcObject} ELSE streamLive
  /\ srcObject' = NoId
  /\ isInitialized' = FALSE
  /\ isTracking' = FALSE
  /\ trkStopped' = TRUE

\* The Retry button (shown while error is set): stop(), then
\* setTimeout(initialize, 1000).
Retry ==
  /\ error # NoError
  /\ retryTimers < MaxRetryTimers
  /\ stop
  /\ retryTimers' = retryTimers + 1
  /\ last' = [op |-> "stop"]
  /\ UNCHANGED << frameCountRef, faceMeshRef, error, initPc, sending, processedCount >>
  /\ UNCHANGED << effectStale, loopVars, rigVars, audioVars >>

\* The Retry timer fires: initialize().
RetryTimer ==
  /\ retryTimers > 0
  /\ retryTimers' = retryTimers - 1
  /\ initialize
  /\ UNCHANGED << cellVars, loopVars, rigVars, audioVars >>

(* ============================ AvatarCanvas ============================= *)

\* The viseme fields of an AudioLipSyncData and the channels a rig applier
\* for them would drive.
Visemes == {"visemeA", "visemeI", "visemeU", "visemeE", "visemeO"}

VisemeOrder == << "visemeA", "visemeI", "visemeU", "visemeE", "visemeO" >>

VisemeChannel(v) ==
  CASE v = "visemeA" -> "aa"
    [] v = "visemeI" -> "joy"
    [] v = "visemeU" -> "ou"
    [] v = "visemeE" -> "lookUp"
    [] v = "visemeO" -> "oh"

\* Mutant of TickWrites: animate also applies the last audio sample.
TickWritesWithAudio(vrm, data) ==
  ( IF vrm # NULL /\ data # NULL /\ data.isActive
      THEN BlendShapeWrites(vrm, "tracking", data.blendShapes)
      ELSE <<>> )
  \o ( IF vrm # NULL /\ audioSample # NULL
         THEN [k \in 1..5 |-> Write("audio", VisemeChannel(VisemeOrder[k]),
                                    Clamp(audioSample[VisemeOrder[k]]))]
         ELSE <<>> )

\* The expression writes one run of animate makes on the rig: the tracking
\* blend shapes when a rig is loaded and the captured sample is present and
\* active; nothing else is applied.
TickWrites(vrm, data) ==
  IF vrm # NULL /\ data # NULL /\ data.isActive
    THEN BlendShapeWrites(vrm, "tracking", data.blendShapes)
    ELSE <<>>

\* Mutant of TickHead: the head rotation is applied without the isActive test.
TickHeadIgnoringActive(vrm, data) ==
  vrm # NULL /\ data # NULL /\ HeadReached(vrm)

\* Whether one run of animate writes the head bone's rotation.
TickHead(vrm, data) ==
  vrm # NULL /\ data # NULL /\ data.isActive /\ HeadReached(vrm)

\* The id requestAnimationFrame returns: the smallest positive id not pending.
FreeId(ids) ==
  CHOOSE n \in 1..(Cardinality(ids) + 1) :
    n \notin ids /\ \A m \in 1..(n - 1) : m \in ids

\* Milliseconds between two consecutive runs of animate (from the clock
\* reading of one to the first clock reading of the next) on a 60 Hz
\* display: a refresh callback comes 16 ms after the previous one; the
\* effect re-runs between two refreshes, 5 ms after the last run, and the
\* refresh that follows it comes 11 ms later.
FrameGap(cause, l) ==
  CASE cause = "frame" /\ l.op = "animate" /\ l.cause = "frame" -> 16
    [] cause = "frame" -> 11
    [] OTHER -> 5

\* 1 / 0 in JavaScript.
Infinity == 1000000

\* Mutant of FpsReport: Math.floor instead of Math.round.
FpsReportFloor(delta) ==
  IF delta = 0 THEN Infinity ELSE 1000 \div delta

\* Math.round(1 / delta) for a getDelta() result of `delta` milliseconds.
FpsReport(delta) ==
  IF delta = 0 THEN Infinity ELSE (2000 + delta) \div (2 * delta)

\* clockRef.current.getDelta(), first call of a tick: 0 when it starts the
\* clock, else the time since the previous reading.
FirstDelta(elapsed) == IF clockRunning THEN elapsed ELSE 0

\* The second getDelta() of the same run of animate: the time since the
\* first one, a few microseconds, 0 in milliseconds.
SecondDelta == 0

\* The parity of the run of animate that follows the one `l` records.
NextFlip(l) == IF l.op = "animate" THEN 1 - l.flip ELSE 0

\* Mutant of requestAnimationFrame: the next frame is requested only inside
\* the branch that applies an active sample.
requestAnimationFrameWhenActive(pending, id, ref) ==
  IF ref # NULL /\ SampleAt(ref).isActive
    THEN pending \cup {[id |-> id, data |-> ref]}
    ELSE pending

\* requestAnimationFrame(animate), the first statement of animate: the
\* callback (with the sample its closure captured) joins the scheduled ones.
requestAnimationFrame(pending, id, ref) ==
  pending \cup {[id |-> id, data |-> ref]}

\* Variant of TickRotation that reads the cell as it is when the tick runs
\* instead of the sample the closure captured.
TickRotationFromCell(ref) == SampleAt(currentTrackingData).rotation

\* currentTrackingData.rotation as animate's closure sees it: the rotation
\* of the same captured sample whose blend shapes the tick applies.
TickRotation(ref) == SampleAt(ref).rotation

\* One run of animate whose closure captured the sample `ref`, with `pending` the
\* animation frames still scheduled when it starts; `cause` says who called
\* it.
animate(ref, pending, cause) ==
  LET id == FreeId({cb.id : cb \in pending})
      elapsed == FrameGap(cause, last)
      data == SampleAt(ref)
      writes == TickWrites(vrmRef, data)
  IN /\ animationIdRef' = id
     /\ rafPending' = requestAnimationFrame(pending, id, ref)
     /\ clockRunning' = TRUE
     /\ rigExpr' = IF writes = <<>> THEN rigExpr ELSE ApplyWrites(vrmRef, rigExpr, writes)
     /\ rigHead' = IF TickHead(vrmRef, data)
                     THEN applyHeadRotation(vrmRef, rigHead, TickRotation(ref))
                     ELSE rigHead
     /\ vrmRef' = vrmRef
     /\ last' = [op |-> "animate", data |-> ref,
                 head |-> TickHead(vrmRef, data), threw |-> FALSE,
                 cause |-> cause,
                 elapsed |-> IF clockRunning THEN elapsed ELSE 0,
                 fpsCalls |-> 1,
                 fps |-> FpsReport(FirstDelta(elapsed)),
                 updated |-> vrmRef # NULL,
                 deltaTime |-> SecondDelta,
                 flip |-> NextFlip(last)]

\* Variant of CancelAnimation: the cleanup cancels nothing.
CancelNothing(pending) == pending

\* cancelAnimationFrame(animationIdRef.current) of the effect cleanup.
CancelAnimation(pending) ==
  IF animationIdRef # NoId THEN {cb \in pending : cb.id # animationIdRef} ELSE pending

\* The render effect (deps [onFPSUpdate, currentTrackingData]) runs on mount
\* and again after every setCurrentTrackingData: the cleanup cancels the
\* scheduled frame, the body defines animate over the current sample and
\* calls it.
RenderEffect ==
  /\ effectStale
  /\ effectStale' = FALSE
  /\ animate(currentTrackingData, CancelAnimation(rafPending),
             IF animationIdRef = NoId THEN "mount" ELSE "update")
  /\ UNCHANGED << currentTrackingData, trackVars, audioVars >>

\* A scheduled animation frame fires: animate runs with the sample its
\* closure captured.
AnimationFrame ==
  \E cb \in rafPending :
    /\ animate(cb.data, rafPending \ {cb}, "frame")
    /\ UNCHANGED << cellVars, trackVars, audioVars >>

(* ===================== useAudioLipSync / UIControls ==================== *)

FreshMic(i) ==
  /\ micPc[i] = "idle"
  /\ \A j \in AudioInitIds : j < i => micPc[j] # "idle"

\* The `enabled` a running analyzeAudio closure captured.  Every chain is
\* started by initializeMicrophone, which the effect calls only from a
\* render with enabled = true, and each tick re-schedules its own closure.
CapturedEnabled == TRUE

\* analyzeAudio passes its guard: analyser and data array present, enabled.
AnalyzeRuns == analyserRef /\ CapturedEnabled

\* One call of analyzeAudio: either the early return, or it hands a sample
\* computed from the current snapshot to onUpdate (UIControls logs it) and
\* schedules requestAnimationFrame(() => setTimeout(analyzeAudio, 33)).
analyzeAudio(pendingRaf) ==
  IF ~AnalyzeRuns'
    THEN /\ last' = [op |-> "analyzeAudio", emitted |-> FALSE]
         /\ UNCHANGED << audioSample, animationFrameRef >>
         /\ audioRaf' = pendingRaf
    ELSE \E sum \in Sums :
           LET id == FreeId(pendingRaf) IN
           /\ audioSample' = AudioData(sum)
           /\ animationFrameRef' = id
           /\ audioRaf' = pendingRaf \cup {id}
           /\ last' = [op |-> "analyzeAudio", emitted |-> TRUE]

\* initializeMicrophone() up to its await: setError(null), a new
\* AudioContext into audioContextRef, getUserMedia requested.
initializeMicrophone ==
  \E i \in AudioInitIds :
    /\ FreshMic(i)
    /\ micError' = NoError
    /\ ctxOpen' = ctxOpen \cup {i}
    /\ audioContextRef' = i
    /\ micPc' = [micPc EXCEPT ![i] = "getUserMedia"]
    /\ micStopped' = FALSE
    /\ last' = [op |-> "initializeMicrophone"]
    /\ UNCHANGED << uiMounted, lipSyncEnabled, micInitialized, micActive, analyserRef,
                    streamRef, animationFrameRef, micLive, audioRaf, audioTimeouts,
                    audioSample >>

\* The enable/disable effect, enabled and not initialized.  Its dependency
\* initializeMicrophone changes identity on every render of UIControls
\* (onUpdate is an inline function), so the effect can run at any time.
MicEffectInit ==
  /\ uiMounted
  /\ lipSyncEnabled /\ ~micInitialized
  /\ initializeMicrophone
  /\ UNCHANGED << trackVars, cellVars, loopVars, rigVars >>

\* getUserMedia resolves.  streamRef takes the stream; with audioContextRef
\* null (stop() ran meanwhile) createMediaStreamSource throws and the catch
\* sets the error; otherwise the analyser is installed, the flags are set
\* and analyzeAudio() is called.
MicResolve(i) ==
  /\ micPc[i] = "getUserMedia"
  /\ micLive' = micLive \cup {i}
  /\ streamRef' = i
  /\ IF audioContextRef = NoId
       THEN /\ micError' = "Microphone access failed"
            /\ micPc' = [micPc EXCEPT ![i] = "failed"]
            /\ last' = [op |-> "micResolve"]
            /\ UNCHANGED << micInitialized, micActive, analyserRef, animationFrameRef,
                            audioRaf, audioSample >>
       ELSE /\ analyserRef' = TRUE
            /\ micInitialized' = TRUE
            /\ micActive' = TRUE
            /\ micPc' = [micPc EXCEPT ![i] = "done"]
            /\ analyzeAudio(audioRaf)
            /\ UNCHANGED micError
  /\ UNCHANGED << uiMounted, lipSyncEnabled, audioContextRef, ctxOpen, audioTimeouts,
                  micStopped >>
  /\ UNCHANGED << trackVars, cellVars, loopVars, rigVars >>

\* getUserMedia rejects: the catch sets the error.
MicReject(i) ==
  /\ micPc[i] = "getUserMedia"
  /\ micError' = "Microphone access failed"
  /\ micPc' = [micPc EXCEPT ![i] = "failed"]
  /\ last' = [op |-> "micReject"]
  /\ UNCHANGED << uiMounted, lipSyncEnabled, micInitialized, micActive, audioContextRef,
                  analyserRef, streamRef, animationFrameRef, micLive, ctxOpen, audioRaf,
                  audioTimeouts, audioSample, micStopped >>
  /\ UNCHANGED << trackVars, cellVars, loopVars, rigVars >>

\* A pending audio animation frame fires: setTimeout(analyzeAudio, 33).
AudioFrame(id) ==
  /\ id \in audioRaf
  /\ audioRaf' = audioRaf \ {id}
  /\ audioTimeouts' = audioTimeouts + 1
  /\ last' = [op |-> "audioFrame"]
  /\ UNCHANGED << uiMounted, lipSyncEnabled, micInitialized, micActive, micError,
                  audioContextRef, analyserRef, streamRef, animationFrameRef, micPc,
                  micLive, ctxOpen, audioSample, micStopped >>
  /\ UNCHANGED << trackVars, cellVars, loopVars, rigVars >>

\* A pending 33 ms timeout fires: analyzeAudio().
AudioTimeout ==
  /\ audioTimeouts > 0
  /\ audioTimeouts' = audioTimeouts - 1
  /\ UNCHANGED analyserRef
  /\ analyzeAudio(audioRaf)
  /\ UNCHANGED << uiMounted, lipSyncEnabled, micInitialized, micActive, micError,
                  audioContextRef, streamRef, micPc, micLive, ctxOpen, micStopped >>
  /\ UNCHANGED << trackVars, cellVars, loopVars, rigVars >>

\* stop() of the audio hook: what it changes.
micStop ==
  /\ audioRaf' = IF animationFrameRef # NoId THEN audioRaf \ {animationFrameRef} ELSE audioRaf
  /\ animationFrameRef' = NoId
  /\ micLive' = IF streamRef # NoId THEN micLive \ {streamRef} ELSE micLive
  /\ streamRef' = NoId
  /\ ctxOpen' = IF audioContextRef # NoId THEN ctxOpen \ {audioContextRef} ELSE ctxOpen
  /\ audioContextRef' = NoId
  /\ analyserRef' = FALSE
  /\ micInitialized' = FALSE
  /\ micActive' = FALSE
  /\ micStopped' = TRUE
  /\ last' = [op |-> "micStop"]
  /\ UNCHANGED << micError, micPc, audioTimeouts, audioSample >>

\* The enable/disable effect, disabled and initialized: stop().
MicEffectStop ==
  /\ uiMounted
  /\ ~lipSyncEnabled /\ micInitialized
  /\ micStop
  /\ UNCHANGED << uiMounted, lipSyncEnabled >>
  /\ UNCHANGED << trackVars, cellVars, loopVars, rigVars >>

\* The "Enable Lip Sync" checkbox.
ToggleLipSync ==
  /\ uiMounted
  /\ lipSyncEnabled' = ~lipSyncEnabled
  /\ last' = [op |-> "toggleLipSync"]
  /\ UNCHANGED << uiMounted, micInitialized, micActive, micError, audioContextRef,
                  analyserRef, streamRef, animationFrameRef, micPc, micLive, ctxOpen,
                  audioRaf, audioTimeouts, audioSample, micStopped >>
  /\ UNCHANGED << trackVars, cellVars, loopVars, rigVars >>

\* UIControls unmounts (App hides the UI): the cleanup effect calls stop().
\* A later mount is a new hook instance with refs of its own.
UnmountUI ==
  /\ uiMounted
  /\ uiMounted' = FALSE
  /\ micStop
  /\ UNCHANGED lipSyncEnabled
  /\ UNCHANGED << trackVars, cellVars, loopVars, rigVars >>

(* ============================ specification ============================ *)

InitTracking ==
  /\ frameCountRef = 0
  /\ cameraRef = NoId
  /\ faceMeshRef = FALSE
  /\ srcObject = NoId
  /\ isInitialized = FALSE
  /\ isTracking = FALSE
  /\ error = NoError
  /\ initPc = [i \in InitIds |-> "idle"]
  /\ streamLive = {}
  /\ cameraRunning = {}
  /\ sending = {}
  /\ retryTimers = 0
  /\ trkStopped = FALSE
  /\ processedCount = 0

InitAvatar ==
  /\ currentTrackingData = NULL
  /\ effectStale = TRUE
  /\ rafPending = {}
  /\ animationIdRef = NoId
  /\ clockRunning = FALSE
  /\ rigExpr = ZeroExpr
  /\ rigHead = Zero3

InitAudio ==
  /\ uiMounted = TRUE
  /\ lipSyncEnabled = FALSE
  /\ micInitialized = FALSE
  /\ micActive = FALSE
  /\ micError = NoError
  /\ audioContextRef = NoId
  /\ analyserRef = FALSE
  /\ streamRef = NoId
  /\ animationFrameRef = NoId
  /\ micPc = [i \in AudioInitIds |-> "idle"]
  /\ micLive = {}
  /\ ctxOpen = {}
  /\ audioRaf = {}
  /\ audioTimeouts = 0
  /\ audioSample = NULL
  /\ micStopped = FALSE

\* The program after mount: vrmRef is never assigned (loadDefaultVRM only
\* adds primitive meshes to the scene).
Init ==
  /\ InitTracking /\ InitAvatar /\ InitAudio
  /\ vrmRef = NULL
  /\ last = [op |-> "mount"]

TrackingNext ==
  \/ AutoInitEffect
  \/ \E i \in InitIds : GetUserMediaResolve(i)
  \/ \E i \in InitIds : GetUserMediaReject(i)
  \/ \E i \in InitIds : PlayResolve(i)
  \/ \E i \in InitIds : PlayReject(i)
  \/ \E i \in InitIds : CameraFrame(i)
  \/ \E i \in InitIds, res \in Results : onResults(i, res)
  \/ Retry
  \/ RetryTimer

RenderNext ==
  \/ RenderEffect
  \/ AnimationFrame

AudioNext ==
  \/ MicEffectInit
  \/ \E i \in AudioInitIds : MicResolve(i)
  \/ \E i \in AudioInitIds : MicReject(i)
  \/ \E id \in audioRaf : AudioFrame(id)
  \/ AudioTimeout
  \/ MicEffectStop
  \/ ToggleLipSync
  \/ UnmountUI

(***************************************************************************)
(* The two sensor hooks share no state; each meets the rest of the program *)
(* only in the render loop.  Spec composes the tracking hook with the      *)
(* render loop, SpecAudio the audio hook with the render loop.             *)
(***************************************************************************)
Next == TrackingNext \/ RenderNext

Spec == Init /\ [][Next]_vars

NextAudio == AudioNext \/ RenderNext

SpecAudio == Init /\ [][NextAudio]_vars

\* The browser runs every scheduled animation frame and React runs every
\* pending effect: Spec with weak fairness of both.
SpecLive ==
  Init /\ [][Next]_vars /\ WF_vars(AnimationFrame) /\ WF_vars(RenderEffect)

(***************************************************************************)
(* The same two compositions with a rig in vrmRef, as it would be once a   *)
(* VRM model is loaded: the rig applier's code is exercised.  SpecAudioRig *)
(* also draws the tracking cell from the samples the tracking hook stores. *)
(***************************************************************************)
InitRig ==
  /\ InitTracking /\ InitAvatar /\ InitAudio
  /\ vrmRef = RigFull
  /\ last = [op |-> "mount"]

SpecRig == InitRig /\ [][Next]_vars

InitAudioRig ==
  /\ InitTracking /\ InitAudio
  /\ currentTrackingData \in
       {SampleRef(d) : d \in {NULL, InactiveData} \cup {ActiveData(f) : f \in Faces}}
  /\ effectStale = TRUE
  /\ rafPending = {}
  /\ animationIdRef = NoId
  /\ clockRunning = FALSE
  /\ rigExpr = ZeroExpr
  /\ rigHead = Zero3
  /\ vrmRef = RigFull
  /\ last = [op |-> "mount"]

SpecAudioRig == InitAudioRig /\ [][NextAudio]_vars

(***************************************************************************)
(* The tracking hook resumed after a stop: an earlier session counted one  *)
(* or two result callbacks, an initialisation failed, the user clicked     *)
(* Retry, stop() has run and the Retry timer is pending.  The invocation   *)
(* slots stand for the initialize() calls still to come; the render loop   *)
(* is running.                                                             *)
(***************************************************************************)
InitResumed ==
  /\ frameCountRef \in {1, 2}
  /\ cameraRef = NoId
  /\ faceMeshRef = TRUE
  /\ srcObject = NoId
  /\ isInitialized = FALSE
  /\ isTracking = FALSE
  /\ error = "Camera access failed"
  /\ initPc = [i \in InitIds |-> "idle"]
  /\ streamLive = {}
  /\ cameraRunning = {}
  /\ sending = {}
  /\ retryTimers = 1
  /\ trkStopped = TRUE
  /\ processedCount = 0
  /\ currentTrackingData = NULL
  /\ effectStale = FALSE
  /\ rafPending = {[id |-> 1, data |-> NULL]}
  /\ animationIdRef = 1
  /\ clockRunning = TRUE
  /\ rigExpr = ZeroExpr
  /\ rigHead = Zero3
  /\ InitAudio
  /\ vrmRef = NULL
  /\ last = [op |-> "stop"]

SpecResumed == InitResumed /\ [][Next]_vars

(***************************************************************************)
(* The rig applier as a function of its inputs: a sample with unmapped     *)
(* names, or one whose sources collide on a channel, is in the tracking    *)
(* cell, the rig is full, partial or bare, and its channels and head bone  *)
(* hold values left by earlier ticks.                                      *)
(***************************************************************************)
InitApplier ==
  /\ InitTracking /\ InitAudio
  /\ \E p \in ({UnmappedData} \X {RigFull, RigPartial, RigBare})
                \cup {<< CollidingData, RigFull >>} :
       /\ currentTrackingData = SampleRef(p[1])
       /\ vrmRef = p[2]
  /\ effectStale = TRUE
  /\ rafPending = {}
  /\ animationIdRef = NoId
  /\ clockRunning = FALSE
  /\ rigExpr = [c \in TargetChannels |-> 250]
  /\ rigHead = [x |-> 100000, y |-> 200000, z |-> 0]
  /\ last = [op |-> "mount"]

SpecApplier == InitApplier /\ [][NextAudio]_vars

(* ================================ claims =============================== *)

\* The expression writes made by the run of animate that `last` records.
LastWrites == TickWrites(vrmRef, SampleAt(last.data))

\* The inactive sample, spelled out.
IsInactiveSample(d) ==
  /\ d # NULL
  /\ d.isActive = FALSE
  /\ d.blendShapes = <<>>
  /\ d.rotation = [x |-> 0, y |-> 0, z |-> 0]
  /\ d.position = [x |-> 0, y |-> 0, z |-> 0]

\* Everything an onResults callback may touch besides the counter (and the
\* settled send).
OutsideCounter ==
  << cameraRef, faceMeshRef, srcObject, isInitialized, isTracking, error, initPc,
     streamLive, cameraRunning, retryTimers, trkStopped, processedCount,
     cellVars, loopVars, rigVars, audioVars >>

(***************************************************************************)
(* C1.  Frame decimation: counting result callbacks from 1 on a fresh      *)
(* hook, a callback is processed exactly when its position is a multiple   *)
(* of 3, so floor(N/3) of the first N are processed; a callback at any     *)
(* other position changes nothing but the counter.                         *)
(***************************************************************************)
C1_Decimation ==
  /\ [] ( /\ processedCount = frameCountRef \div 3
          /\ last.op = "onResults" => (last.processed <=> frameCountRef % 3 = 0) )
  /\ [][ (frameCountRef' # frameCountRef /\ frameCountRef' % 3 # 0)
           => UNCHANGED OutsideCounter ]_vars

C1_Witness ==
  /\ frameCountRef = 6
  /\ processedCount = 2
  /\ last.op = "onResults" /\ last.processed

(***************************************************************************)
(* C2.  Every callback that passes the decimation replaces the stored      *)
(* sample and sets the tracking flag to that sample's active flag; none    *)
(* leaves the previous sample in place.                                    *)
(***************************************************************************)
C2_EveryProcessedCallbackStores ==
  (last.op = "onResults" /\ last.processed)
    => /\ last.emitted
       /\ currentTrackingData # NULL
       /\ isTracking = SampleAt(currentTrackingData).isActive

(***************************************************************************)
(* C3.  A throwing solve is caught inside the callback: the stored sample  *)
(* becomes the inactive sample, the tracking flag becomes false, and no    *)
(* exception leaves the callback or a render tick.                         *)
(***************************************************************************)
C3_SolveFailureDegrades ==
  /\ (last.op = "onResults" /\ last.processed /\ last.kind = "solveThrows")
       => /\ last.emitted
          /\ IsInactiveSample(SampleAt(currentTrackingData))
          /\ isTracking = FALSE
          /\ effectStale
  /\ last.op = "onResults" => ~last.uncaught
  /\ last.op = "animate" => ~last.threw

C3_Witness ==
  /\ last.op = "onResults" /\ last.processed /\ last.kind = "solveThrows"
  /\ IsInactiveSample(SampleAt(currentTrackingData))
  /\ frameCountRef = 6

(***************************************************************************)
(* C4.  A render tick whose tracking sample is absent or inactive makes no *)
(* tracking-sourced expression write and leaves the head-bone rotation     *)
(* (and the expression channels) unchanged.                                *)
(***************************************************************************)
TickSampleInactive(l) ==
  l.op = "animate" /\ (l.data = NULL \/ ~SampleAt(l.data).isActive)

C4_InactiveTickWritesNothing ==
  /\ [] ( TickSampleInactive(last)
            => /\ \A k \in DOMAIN LastWrites : LastWrites[k].src # "tracking"
               /\ ~last.head )
  /\ [][ TickSampleInactive(last') => UNCHANGED << rigExpr, rigHead >> ]_vars

C4_Witness ==
  /\ last.op = "animate"
  /\ IsInactiveSample(SampleAt(last.data))
  /\ vrmRef = RigFull
  /\ rigHead # Zero3
  /\ rigExpr["aa"] = 900

(***************************************************************************)
(* C5.  On every render tick each viseme weight of the latest audio sample *)
(* is clamped to [0,1] and written to the rig, whatever the tracking       *)
(* sample.                                                                 *)
(***************************************************************************)
C5_VisemesWrittenEveryTick ==
  (last.op = "animate" /\ audioSample # NULL)
    => \A v \in Visemes :
         \E k \in DOMAIN LastWrites :
           /\ LastWrites[k].src = "audio"
           /\ LastWrites[k].val = Clamp(audioSample[v])

(***************************************************************************)
(* C6.  Once the audio producer is stopped, or while it never started, a   *)
(* render tick applies no non-zero viseme weight and does not throw.       *)
(***************************************************************************)
AudioProducerOff == micStopped \/ \A i \in AudioInitIds : micPc[i] # "done"

C7_NoUpdateAfterStop ==
  trkStopped => /\ ~isTracking
                /\ ~(last.op = "onResults" /\ last.emitted)

(***************************************************************************)
(* C8.  After the audio hook's stop() and until initializeMicrophone() is  *)
(* next called, no onUpdate fires and no estimator tick is scheduled.      *)
(***************************************************************************)
C8_NoAudioTickAfterStop ==
  micStopped => /\ ~(last.op = "analyzeAudio" /\ last.emitted)
                /\ last.op # "audioFrame"

(***************************************************************************)
(* C9.  After stop() of either hook, every device stream (and audio        *)
(* context) that any initialize of that hook opened is released.           *)
(***************************************************************************)
C9_StopReleasesEveryStream ==
  /\ trkStopped => streamLive = {}
  /\ micStopped => (micLive = {} /\ ctxOpen = {})

(***************************************************************************)
(* C10.  At most one tracking producer: no initialize() is in progress     *)
(* beside another one or beside a running camera, and at most one solver   *)
(* invocation is in flight.                                                *)
(***************************************************************************)
InitsInProgress == {i \in InitIds : initPc[i] \in {"getUserMedia", "play"}}

C10_SingleTrackingProducer ==
  /\ Cardinality(InitsInProgress) + Cardinality(cameraRunning) <= 1
  /\ Cardinality(sending) <= 1

(***************************************************************************)
(* C11.  The render loop never halts: once animate has run, a next run is  *)
(* always scheduled, and render ticks keep happening for ever, whatever    *)
(* errors, solver failures, stops and tracking updates came before.        *)
(***************************************************************************)
C11_RenderLoopNeverHalts ==
  /\ [] (animationIdRef # NoId => \E cb \in rafPending : cb.id = animationIdRef)
  /\ []<><<AnimationFrame \/ RenderEffect>>_vars

C11_Witness ==
  /\ last.op = "animate" /\ last.cause = "frame" /\ last.flip = 1
  /\ error # NoError
  /\ trkStopped
  /\ currentTrackingData # NULL /\ ~SampleAt(currentTrackingData).isActive

(***************************************************************************)
(* C12.  Every value the applier writes to an expression channel lies in   *)
(* [0,1]: an input above 1 is written as 1, an input below 0 as 0, an      *)
(* input within [0,1] unchanged; so every channel of the rig stays in      *)
(* [0,1].                                                                  *)
(***************************************************************************)
ExpectedWritten(v) == IF v > 1000 THEN 1000 ELSE IF v < 0 THEN 0 ELSE v

C12_WritesClamped ==
  /\ \A c \in DOMAIN rigExpr : rigExpr[c] >= 0 /\ rigExpr[c] <= 1000
  /\ (last.op = "animate" /\ last.data # NULL /\ SampleAt(last.data).isActive)
       => LET inputs == SelectSeq(SampleAt(last.data).blendShapes, IsMapped)
              writes == LastWrites
          IN /\ Len(writes) = Len(inputs)
             /\ \A k \in DOMAIN writes :
                  /\ writes[k].val = ExpectedWritten(inputs[k].value)
                  /\ rigExpr[writes[k].ch] >= 0
                  /\ rigExpr[writes[k].ch] <= 1000

C12_Witness ==
  /\ last.op = "animate"
  /\ SampleAt(last.data) = ActiveData(FaceB)
  /\ rigExpr["blinkLeft"] = 1000
  /\ rigExpr["blinkRight"] = 0
  /\ rigExpr["joy"] = 400

(***************************************************************************)
(* C13. A source name without an entry in the channel mapping never makes  *)
(* a tick raise and causes no channel write; a channel that no mapped      *)
(* source name of the tick's sample targets keeps its value; a write to a  *)
(* channel the rig lacks, or a rotation of a head bone the rig lacks, does *)
(* nothing.                                                                *)
(***************************************************************************)
MappedNames(data) ==
  {data.blendShapes[k].name : k \in DOMAIN data.blendShapes} \cap DOMAIN mapping

TargetsOf(data) == {mapping[n] : n \in MappedNames(data)}

MappedValue(data, c) ==
  LET ks == {k \in DOMAIN data.blendShapes :
               /\ data.blendShapes[k].name \in DOMAIN mapping
               /\ mapping[data.blendShapes[k].name] = c}
      k == CHOOSE m \in ks : \A n \in ks : n <= m
  IN ExpectedWritten(data.blendShapes[k].value)

C13_UnmappedAndMissingAreNoOps ==
  /\ [] (last.op = "animate" => ~last.threw)
  /\ [] ((last.op = "animate" /\ last.data # NULL /\ SampleAt(last.data).isActive)
           => /\ Len(LastWrites) <= Cardinality(MappedNames(SampleAt(last.data)))
              /\ \A k \in DOMAIN LastWrites :
                   LastWrites[k].ch \in TargetsOf(SampleAt(last.data)))
  /\ [][ (last'.op = "animate" /\ last'.data # NULL /\ SampleAt(last'.data).isActive)
           => /\ \A c \in TargetChannels :
                   rigExpr'[c] =
                     IF /\ c \in TargetsOf(SampleAt(last'.data))
                        /\ vrmRef.expressionManager
                        /\ c \in vrmRef.channels
                       THEN MappedValue(SampleAt(last'.data), c)
                       ELSE rigExpr[c]
              /\ ~(vrmRef.humanoid /\ vrmRef.head) => rigHead' = rigHead ]_vars

C13_Witness ==
  /\ last.op = "animate"
  /\ SampleAt(last.data) = UnmappedData
  /\ vrmRef = RigPartial
  /\ rigExpr["aa"] = 300
  /\ rigExpr["ou"] = 250
  /\ rigExpr["blinkLeft"] = 250
  /\ rigHead.x = 100000

(***************************************************************************)
(* C14. End to end: a render tick that runs with the active sample the     *)
(* solver emitted for mouthOpen = 0.9 and rotation x = 10 degrees writes   *)
(* rig channel aa = 0.9 and sets the head bone's rotation x to the radian  *)
(* value of 10 * 0.5 degrees.                                              *)
(***************************************************************************)
C14_EndToEndScenario ==
  (last.op = "animate" /\ last.data # NULL /\ SampleAt(last.data) = ActiveData(FaceA))
    => /\ \E k \in DOMAIN LastWrites :
            LastWrites[k].ch = "aa" /\ LastWrites[k].val = 900
       /\ rigExpr["aa"] = 900
       /\ last.head
       /\ rigHead.x = (5000 * Deg2RadMicro) \div 1000

(***************************************************************************)
(* C15. In every emitted audio sample, with s its compressed volume, each  *)
(* viseme weight is s * gain when s is strictly greater than the viseme's  *)
(* threshold and 0 otherwise (thresholds A 0.10, I 0.05, U 0.03, E 0.07,   *)
(* O 0.04; gains 0.8, 0.6, 0.4, 0.5, 0.7); all five are 0 at zero volume,  *)
(* and a volume exactly at a threshold yields 0.                          *)
(***************************************************************************)
VisemeTable ==
  [ visemeA |-> [threshold |-> 100, gainTenths |-> 8],
    visemeI |-> [threshold |-> 50, gainTenths |-> 6],
    visemeU |-> [threshold |-> 30, gainTenths |-> 4],
    visemeE |-> [threshold |-> 70, gainTenths |-> 5],
    visemeO |-> [threshold |-> 40, gainTenths |-> 7] ]

C15_VisemeWeights ==
  /\ audioSample # NULL
       => /\ \A v \in DOMAIN VisemeTable :
               audioSample[v] =
                 IF audioSample.volume > VisemeTable[v].threshold
                   THEN (audioSample.volume * VisemeTable[v].gainTenths) \div 10
                   ELSE 0
          /\ audioSample.volume = 0
               => \A v \in DOMAIN VisemeTable : audioSample[v] = 0
  /\ \A v \in DOMAIN VisemeTable :
       /\ Viseme(VisemeTable[v].threshold, VisemeTable[v].threshold,
                 VisemeTable[v].gainTenths) = 0
       /\ Viseme(VisemeTable[v].threshold + 1, VisemeTable[v].threshold,
                 VisemeTable[v].gainTenths)
            = ((VisemeTable[v].threshold + 1) * VisemeTable[v].gainTenths) \div 10

C15_Witness ==
  /\ last.op = "analyzeAudio" /\ last.emitted
  /\ audioSample # NULL
  /\ audioSample.volume = 63
  /\ audioSample.visemeA = 0
  /\ audioSample.visemeI = 37
  /\ audioSample.visemeU = 25
  /\ audioSample.visemeE = 0
  /\ audioSample.visemeO = 44

(***************************************************************************)
(* C16. In every reachable state, a stored tracking sample whose active    *)
(* flag is false has no expression weights and a head rotation and head    *)
(* position that are zero on every axis.                                   *)
(***************************************************************************)
C16_InactiveSampleIsEmpty ==
  (currentTrackingData # NULL /\ ~SampleAt(currentTrackingData).isActive)
    => /\ Len(SampleAt(currentTrackingData).blendShapes) = 0
       /\ \A a \in {"x", "y", "z"} :
            /\ SampleAt(currentTrackingData).rotation[a] = 0
            /\ SampleAt(currentTrackingData).position[a] = 0

C16_Witness ==
  /\ last.op = "onResults" /\ last.processed /\ last.kind = "noLandmarks"
  /\ currentTrackingData # NULL
  /\ ~SampleAt(currentTrackingData).isActive
  /\ isTracking = FALSE

C18_NoOpenAttemptAfterFailure ==
  /\ [] (last.op = "micReject" => micError # NoError)
  /\ [][ last.op = "micReject" => last'.op # "initializeMicrophone" ]_vars

C20_TicksOnlyFromRefresh ==
  /\ [] (last.op = "animate" => last.cause # "update")
  /\ [][ last.op = "onResults" => last'.op # "animate" \/ last'.cause = "frame" ]_vars

(***************************************************************************)
(* C21. No tearing: after a render tick that applied an active sample,     *)
(* there is one sample from which both the expression values the tick      *)
(* wrote and the head rotation it set were taken, and it is the sample the *)
(* tick ran with, also when the stored sample was replaced meanwhile.      *)
(***************************************************************************)
HeadFrom(data) ==
  [ a \in {"x", "y", "z"} |->
      (((data.rotation[a] * 5) \div 10) * Deg2RadMicro) \div 1000 ]

\* What a full rig holds after a tick applied the sample: per sample of the
\* table, the value of every channel it targets and the head rotation.
ExpectedRig ==
  [ h \in DOMAIN SampleTable |->
      [ expr |-> [c \in TargetsOf(SampleTable[h]) |-> MappedValue(SampleTable[h], c)],
        head |-> HeadFrom(SampleTable[h]) ] ]

AppliedFromRef(h) ==
  /\ SampleTable[h].isActive
  /\ \A c \in DOMAIN ExpectedRig[h].expr : rigExpr[c] = ExpectedRig[h].expr[c]
  /\ rigHead = ExpectedRig[h].head

AppliedFrom(data) == AppliedFromRef(SampleRef(data).ref)

C21_NoTearing ==
  (last.op = "animate" /\ last.data # NULL /\ SampleAt(last.data).isActive)
    => /\ \E h \in DOMAIN SampleTable : AppliedFromRef(h)
       /\ AppliedFromRef(last.data.ref)

C21_Witness ==
  /\ last.op = "animate" /\ last.cause = "frame"
  /\ SampleAt(last.data) = ActiveData(FaceA)
  /\ currentTrackingData # NULL
  /\ SampleAt(currentTrackingData) = ActiveData(FaceB)
  /\ AppliedFrom(ActiveData(FaceA))
  /\ ~AppliedFrom(ActiveData(FaceB))

(***************************************************************************)
(* C22. The stored tracking sample changes only when a processed result    *)
(* callback emits one: stop(), initialize(), timers and render ticks leave *)
(* it as it is, so after the producer has stopped the sample stays and     *)
(* every render tick of the settled loop runs with it and, when it is      *)
(* active, applies it.                                                     *)
(***************************************************************************)
C22_StaleSampleRetained ==
  /\ [][ currentTrackingData' # currentTrackingData
           => last'.op = "onResults" /\ last'.emitted ]_vars
  /\ [] ( (last.op = "animate" /\ ~effectStale)
            => /\ last.data = currentTrackingData
               /\ (currentTrackingData # NULL /\ SampleAt(currentTrackingData).isActive)
                    => AppliedFrom(SampleAt(currentTrackingData)) )

C22_Witness ==
  /\ trkStopped
  /\ cameraRunning = {} /\ sending = {}
  /\ last.op = "animate" /\ last.cause = "frame" /\ last.flip = 1
  /\ ~effectStale
  /\ currentTrackingData # NULL
  /\ SampleAt(currentTrackingData) = ActiveData(FaceA)
  /\ AppliedFrom(ActiveData(FaceA))

(***************************************************************************)
(* C23. When several source names of a tick's sample map to one target     *)
(* channel, the channel holds after the tick the clamped weight of the     *)
(* source that comes last in the sample's iteration order; a tick that     *)
(* applies the same sample as the tick before it leaves the rig as it was. *)
(***************************************************************************)
C23_LastWriteWins ==
  /\ [] ( (last.op = "animate" /\ last.data # NULL /\ SampleAt(last.data).isActive
             /\ vrmRef.expressionManager)
            => \A c \in TargetsOf(SampleAt(last.data)) \cap vrmRef.channels :
                 rigExpr[c] = MappedValue(SampleAt(last.data), c) )
  /\ [][ (last.op = "animate" /\ last'.op = "animate" /\ last'.data = last.data)
           => rigExpr' = rigExpr /\ rigHead' = rigHead ]_vars

C23_Witness ==
  /\ last.op = "animate" /\ last.flip = 1
  /\ SampleAt(last.data) = CollidingData
  /\ rigExpr["lookUp"] = 800
  /\ rigExpr["joy"] = 600
  /\ rigExpr["surprised"] = 0
  /\ rigExpr["aa"] = 250

(***************************************************************************)
(* C24. At any time at most one audio-estimator tick chain is live: the    *)
(* scheduled continuations of analyzeAudio (pending animation frames and   *)
(* pending 33 ms timeouts) never number more than one while the analyser   *)
(* is installed.                                                           *)
(***************************************************************************)
C24_SingleAudioChain ==
  analyserRef => Cardinality(audioRaf) + audioTimeouts <= 1

(***************************************************************************)
(* C25. At any time at most one render-loop callback is pending, and it is *)
(* the one whose id animationIdRef holds: a re-run of the render effect    *)
(* cancels the scheduled frame before it starts the new loop.              *)
(***************************************************************************)
C25_SingleRenderLoop ==
  /\ Cardinality(rafPending) <= 1
  /\ \A cb \in rafPending : cb.id = animationIdRef

C25_Witness ==
  /\ last.op = "animate" /\ last.cause = "update"
  /\ Cardinality(rafPending) = 1
  /\ \A cb \in rafPending : cb.id = animationIdRef /\ cb.data = currentTrackingData
  /\ currentTrackingData # NULL

(***************************************************************************)
(* C26. In every active sample the tracking hook stores, source names that *)
(* map to the same target channel carry equal values, so every source of a *)
(* channel would write the value the channel ends with, whatever the       *)
(* iteration order.                                                        *)
(***************************************************************************)
SourcesAgree(data) ==
  \A i, j \in DOMAIN data.blendShapes :
    ( /\ data.blendShapes[i].name \in DOMAIN mapping
      /\ data.blendShapes[j].name \in DOMAIN mapping
      /\ mapping[data.blendShapes[i].name] = mapping[data.blendShapes[j].name] )
      => data.blendShapes[i].value = data.blendShapes[j].value

OrderIndependent(data) ==
  \A k \in DOMAIN data.blendShapes :
    data.blendShapes[k].name \in DOMAIN mapping
      => ExpectedWritten(data.blendShapes[k].value)
           = MappedValue(data, mapping[data.blendShapes[k].name])

\* The samples of the table whose colliding sources agree.
AgreeingSamples ==
  {h \in DOMAIN SampleTable :
     SourcesAgree(SampleTable[h]) /\ OrderIndependent(SampleTable[h])}

C26_CollidingSourcesAgree ==
  (currentTrackingData # NULL /\ SampleAt(currentTrackingData).isActive)
    => currentTrackingData.ref \in AgreeingSamples

C26_Witness ==
  /\ last.op = "onResults" /\ last.emitted
  /\ currentTrackingData # NULL
  /\ SampleAt(currentTrackingData) = ActiveData(FaceB)
  /\ SourcesAgree(ActiveData(FaceB))
  /\ ~SourcesAgree(CollidingData)

(***************************************************************************)
(* C27. The isTracking flag agrees with the tracking lifecycle: after a    *)
(* processed callback that delivered a sample it equals that sample's      *)
(* active flag; whenever it is true the hook is initialized; and it is not *)
(* true after stop() until the next initialize().                          *)
(***************************************************************************)
C27_TrackingFlagFollowsLifecycle ==
  /\ (last.op = "onResults" /\ last.processed /\ last.emitted)
       => isTracking = SampleAt(currentTrackingData).isActive
  /\ isTracking => isInitialized
  /\ trkStopped => ~isTracking

(***************************************************************************)
(* C28. The decimation counter changes only by being incremented by one in *)
(* a result callback; stop() and initialize() leave it unchanged, so after *)
(* a stop/initialize cycle the every-third pattern continues from the      *)
(* count reached before the stop: a callback is processed exactly when the *)
(* running count is a multiple of 3.                                       *)
(***************************************************************************)
C28_CounterSurvivesRestart ==
  /\ [][ /\ frameCountRef' # frameCountRef
           => frameCountRef' = frameCountRef + 1 /\ last'.op = "onResults"
         /\ last'.op \in {"stop", "initialize"} => frameCountRef' = frameCountRef ]_vars
  /\ [] (last.op = "onResults" => (last.processed <=> frameCountRef % 3 = 0))

\* The hook resumed at count 2: the first callback after the restart is
\* processed.
C28_Witness ==
  /\ last.op = "onResults" /\ last.processed
  /\ frameCountRef = 3
  /\ processedCount = 1
  /\ ~trkStopped
  /\ retryTimers = 0

(***************************************************************************)
(* C29. In every emitted audio sample the volume and the five viseme       *)
(* weights lie in [0,1], each weight is at most the volume, and activation *)
(* is nested in threshold order: visemeA > 0 implies visemeE > 0, which    *)
(* implies visemeI > 0, which implies visemeO > 0, which implies           *)
(* visemeU > 0.  The comparison itself is nested for every volume.         *)
(***************************************************************************)
NestedOrder == << "visemeA", "visemeE", "visemeI", "visemeO", "visemeU" >>

WeightsNested(w) ==
  \A k \in 1..(Len(NestedOrder) - 1) :
    w[NestedOrder[k]] > 0 => w[NestedOrder[k + 1]] > 0

NestedForEveryVolume ==
  \A s \in 0..1000 :
    LET w == [v \in DOMAIN VisemeTable |->
                Viseme(s, VisemeTable[v].threshold, VisemeTable[v].gainTenths)]
    IN /\ WeightsNested(w)
       /\ \A v \in DOMAIN VisemeTable : w[v] >= 0 /\ w[v] <= s

C29_AudioSampleBounds ==
  /\ audioSample # NULL
       => /\ audioSample.volume >= 0 /\ audioSample.volume <= 1000
          /\ \A v \in DOMAIN VisemeTable :
               /\ audioSample[v] >= 0
               /\ audioSample[v] <= 1000
               /\ audioSample[v] <= audioSample.volume
          /\ WeightsNested(audioSample)
  /\ NestedForEveryVolume

C29_Witness ==
  /\ last.op = "analyzeAudio" /\ last.emitted
  /\ audioSample # NULL
  /\ audioSample.visemeI > 0 /\ audioSample.visemeO > 0 /\ audioSample.visemeU > 0
  /\ audioSample.visemeE = 0 /\ audioSample.visemeA = 0
  /\ audioSample.visemeO <= audioSample.volume

=============================================================================
